---------------------------- MODULE Spec2Model ----------------------------
(***************************************************************************)
(* Ingestion engine of timescale-prometheus (pkg/pgmodel, pgx inserter):   *)
(* the facade InsertData, the inserters map, one writer goroutine per      *)
(* metric (runInserterRoutine), the pending buffer and its flush, and      *)
(* Close, and the metric-creation completer                                *)
(* (runCompleteMetricCreationWorker).                                      *)
(*                                                                         *)
(* Goroutines are processes; every action is one handler step between two  *)
(* scheduling points (a channel operation, a WaitGroup wait, a store       *)
(* call).  A Go panic stops the whole process: it is recorded in           *)
(* `crashed` and no action is enabled afterwards.                          *)
(***************************************************************************)
EXTENDS Integers, Sequences, FiniteSets, TLC

(***************************************************************************)
(* Bounds of the model and scaled program constants.                       *)
(***************************************************************************)
\* number of InsertData calls made during a run
MaxReq == 2
\* number of zero-value tasks the model keeps apart in a pending buffer
MaxZeroTasks == 1
\* number of store and cache failures injected during a run
MaxFaults == 1
\* flushSize (2000 in the source), scaled so that a run reaches it
flushSize == 2
\* mailbox capacity (1000 in the source), scaled so that a sender can block
chanCap == 1

Reqs == 1 .. MaxReq
Metrics == {"A", "B"}
\* a label set is a number; Labels.Compare orders them as the integers are
\* the channel request r makes for metric m (getMetricInserter, make(chan))
Chans == Reqs \X Metrics
NoErr == "nil"

(***************************************************************************)
(* Data.  A samplesInfo is [labels, seriesID, n, req, idx]: n samples, the *)
(* j-th being sample <<req, idx, j>> of batch idx of request req.  Its     *)
(* field writes counts the assignments made to seriesID (history).         *)
(***************************************************************************)
Unresolved == -1

SampleBatch(l, n) == [labels |-> l, n |-> n]

\* A rows map: the metrics it has as keys and the batch list of each
RowsMap(ms, a, b) == [ms |-> ms, data |-> [m \in Metrics |-> IF m = "A" THEN a ELSE b]]

\* The rows maps the callers pass to InsertData: several batches with labels
\* out of order, two metrics, another metric only, a batch without samples
\* last and first, a metric with an empty batch list
Requests ==
    { RowsMap({"A"}, << SampleBatch(2, 2), SampleBatch(1, 1) >>, << >>),
      RowsMap({"A", "B"}, << SampleBatch(1, 1) >>, << SampleBatch(2, 1) >>),
      RowsMap({"B"}, << >>, << SampleBatch(2, 1) >>),
      RowsMap({"A"}, << SampleBatch(1, 1), SampleBatch(1, 0) >>, << >>),
      RowsMap({"A"}, << SampleBatch(1, 0), SampleBatch(2, 1) >>, << >>),
      RowsMap({"A"}, << >>, << >>) }

\* the []samplesInfo of request r built from a batch list: ids unresolved
MkData(r, d) ==
    [i \in 1 .. Len(d) |->
        [labels |-> d[i].labels, seriesID |-> Unresolved, n |-> d[i].n,
         req |-> r, idx |-> i, writes |-> 0]]

\* Labels.String(): the fingerprint of a label set
LabelsString(l) == <<"fp", l>>
\* Labels.Compare(a, b) < 0
LabelsLess(a, b) == a < b
\* Labels.Equal
LabelsEqual(a, b) == a = b
\* the id the store's get_series_id_for_key_value_array returns
StoreSeriesId(l) == 100 + l

RECURSIVE SumN(_)
SumN(s) == IF s = << >> THEN 0 ELSE Head(s).n + SumN(Tail(s))

RECURSIVE SetSum(_, _)
SetSum(f, S) ==
    IF S = {} THEN 0
    ELSE LET x == CHOOSE y \in S : TRUE IN f[x] + SetSum(f, S \ {x})

(***************************************************************************)
(* SampleInfoIterator: Next and Values as pgx's CopyFrom drives them.      *)
(* The state is (sampleInfoIndex, sampleIndex), 0-based as in the source.  *)
(***************************************************************************)
\* the test of Next after t.sampleIndex++ (it.sampleIndex is the old index)
IterAdvances(infos, it) ==
    /\ it.sampleInfoIndex < Len(infos)
    /\ it.sampleIndex + 1 >= infos[it.sampleInfoIndex + 1].n

IterNext(infos, it) ==
    IF IterAdvances(infos, it)
    THEN [sampleInfoIndex |-> it.sampleInfoIndex + 1, sampleIndex |-> 0,
          more |-> it.sampleInfoIndex + 1 < Len(infos)]
    ELSE [sampleInfoIndex |-> it.sampleInfoIndex, sampleIndex |-> it.sampleIndex + 1,
          more |-> it.sampleInfoIndex < Len(infos)]

\* Values() indexes sampleInfos[sampleInfoIndex].samples[sampleIndex]
IterValuesInRange(infos, it) ==
    /\ it.sampleInfoIndex < Len(infos)
    /\ it.sampleIndex < infos[it.sampleInfoIndex + 1].n

\* the row Values() returns: sample sampleIndex of the batch, with its series id
RowOf(info, sampleIndex) == <<info.req, info.idx, sampleIndex + 1, info.seriesID>>

IterValues(infos, it) == RowOf(infos[it.sampleInfoIndex + 1], it.sampleIndex)

\* for rowSrc.Next() { rowSrc.Values() }: the rows read, or a panic.
\* nx is the iterator after the call of Next.
RECURSIVE IterRun(_, _, _)
IterRun(infos, nx, acc) ==
    IF ~nx.more THEN [rows |-> acc, panic |-> FALSE]
    ELSE IF ~IterValuesInRange(infos, nx) THEN [rows |-> acc, panic |-> TRUE]
    ELSE IterRun(infos, IterNext(infos, nx), Append(acc, IterValues(infos, nx)))

NewSampleInfoIterator == [sampleInfoIndex |-> 0, sampleIndex |-> -1]

CopyRows(infos) == IterRun(infos, IterNext(infos, NewSampleInfoIterator), << >>)


(***************************************************************************)
(* Series-id resolution: fillKnowSeriesIds and setSeriesIds.  A series     *)
(* cache is a function from fingerprints to ids.                           *)
(***************************************************************************)
\* A faulty lookup that takes an id of the cache whatever the labels are.
FillOneAnyEntry(cache, b) ==
    IF b.seriesID > -1 \/ DOMAIN cache = {} THEN b
    ELSE [b EXCEPT !.seriesID = cache[CHOOSE k \in DOMAIN cache : TRUE]]

\* one iteration of fillKnowSeriesIds: `series.labels = nil` assigns to the
\* range copy, the element of the slice keeps its labels
FillOne(cache, b) ==
    IF b.seriesID > -1 THEN b
    ELSE IF LabelsString(b.labels) \in DOMAIN cache
         THEN [b EXCEPT !.seriesID = cache[LabelsString(b.labels)],
                        !.writes = @ + 1]
         ELSE b

fillKnowSeriesIds(cache, infos) ==
    [i \in 1 .. Len(infos) |-> FillOne(cache, infos[i])]

\* numMissingSeries, the result of fillKnowSeriesIds
numMissingSeries(cache, infos) ==
    Cardinality({i \in 1 .. Len(infos) :
                    /\ ~(infos[i].seriesID > -1)
                    /\ LabelsString(infos[i].labels) \notin DOMAIN cache})

\* A faulty selection that takes every batch, resolved or not.
RECURSIVE SeriesToInsertAll(_, _)
SeriesToInsertAll(infos, i) ==
    IF i > Len(infos) THEN << >>
    ELSE <<i>> \o SeriesToInsertAll(infos, i + 1)

\* seriesToInsert: the indices (pointers into sampleInfos) still unresolved
RECURSIVE SeriesToInsert(_, _)
SeriesToInsert(infos, i) ==
    IF i > Len(infos) THEN << >>
    ELSE IF infos[i].seriesID < 0
         THEN <<i>> \o SeriesToInsert(infos, i + 1)
         ELSE SeriesToInsert(infos, i + 1)

\* sort.Slice(seriesToInsert, labels.Compare < 0): the pointers are sorted,
\* sampleInfos itself is not touched
RECURSIVE InsertSorted(_, _, _)
InsertSorted(infos, sorted, i) ==
    IF sorted = << >> THEN <<i>>
    ELSE IF LabelsLess(infos[i].labels, infos[Head(sorted)].labels)
         THEN <<i>> \o sorted
         ELSE <<Head(sorted)>> \o InsertSorted(infos, Tail(sorted), i)

RECURSIVE SortSlice(_, _)
SortSlice(infos, idxs) ==
    IF idxs = << >> THEN << >>
    ELSE InsertSorted(infos, SortSlice(infos, Tail(idxs)), Head(idxs))

\* A faulty grouping that queues one call per unresolved batch.
RECURSIVE GroupSeriesNoSharing(_, _, _, _)
GroupSeriesNoSharing(infos, sorted, lastSeenLabel, batchSeries) ==
    IF sorted = << >> THEN batchSeries
    ELSE GroupSeriesNoSharing(infos, Tail(sorted), lastSeenLabel,
                              Append(batchSeries, <<Head(sorted)>>))

\* batchSeries: one slice of pointers per run of equal labels
\* (lastSeenLabel = 0: nil)
RECURSIVE GroupSeries(_, _, _, _)
GroupSeries(infos, sorted, lastSeenLabel, batchSeries) ==
    IF sorted = << >> THEN batchSeries
    ELSE IF lastSeenLabel # 0 /\ LabelsEqual(lastSeenLabel, infos[Head(sorted)].labels)
         THEN GroupSeries(infos, Tail(sorted), lastSeenLabel,
                 [batchSeries EXCEPT ![Len(batchSeries)] = Append(@, Head(sorted))])
         ELSE GroupSeries(infos, Tail(sorted), infos[Head(sorted)].labels,
                 Append(batchSeries, <<Head(sorted)>>))

\* batchSeries of a buffer whose known ids are filled in
BatchSeries(filled) ==
    GroupSeries(filled, SortSlice(filled, SeriesToInsert(filled, 1)), 0, << >>)

\* What the pipeline does: the first `assigned` clusters got their row and
\* were assigned; err says whether a result (begin, row, commit or the send)
\* failed.  Without an error every cluster is assigned.
SeriesOutcomes(nclusters) ==
    {[assigned |-> nclusters, err |-> FALSE]}
    \cup {[assigned |-> a, err |-> TRUE] : a \in 0 .. nclusters}

\* h.seriesCache[labels.String()] = id
CachePut(cache, key, id) ==
    [k \in DOMAIN cache \cup {key} |-> IF k = key THEN id ELSE cache[k]]

\* for _, lsi := range batchSeries[i] { lsi.seriesID = id }
AssignIds(infos, cl, id) ==
    [x \in 1 .. Len(infos) |->
        IF \E j \in 1 .. Len(cl) : cl[j] = x
        THEN [infos[x] EXCEPT !.seriesID = id, !.writes = @ + 1]
        ELSE infos[x]]

\* the result loop of setSeriesIds over clusters i .. upto
RECURSIVE AssignClusters(_, _, _, _, _)
AssignClusters(cache, infos, batchSeries, i, upto) ==
    IF i > upto THEN [cache |-> cache, infos |-> infos]
    ELSE AssignClusters(
            CachePut(cache, LabelsString(infos[batchSeries[i][1]].labels),
                     StoreSeriesId(infos[batchSeries[i][1]].labels)),
            AssignIds(infos, batchSeries[i],
                      StoreSeriesId(infos[batchSeries[i][1]].labels)),
            batchSeries, i + 1, upto)

MinOf(a, b) == IF a < b THEN a ELSE b

SetIdsResult(err, st, calls) ==
    [err |-> err, cache |-> st.cache, infos |-> st.infos, calls |-> calls]

\* setSeriesIds once the known ids are filled in and the clusters are built
SetIdsBatch(cache, filled, bs, so) ==
    SetIdsResult(so.err,
                 AssignClusters(cache, filled, bs, 1, MinOf(so.assigned, Len(bs))),
                 Len(bs))

\* the buffer sorted by labels
SortedByLabels(infos) ==
    [i \in 1 .. Len(infos) |->
        infos[SortSlice(infos, [j \in 1 .. Len(infos) |-> j])[i]]]

\* A faulty setSeriesIds that sorts the buffer itself instead of the slice
\* of pointers into it.
setSeriesIdsSortingBuffer(cache, infos, so) ==
    IF numMissingSeries(cache, infos) = 0
    THEN [err |-> FALSE, cache |-> cache,
          infos |-> fillKnowSeriesIds(cache, infos), calls |-> 0]
    ELSE SetIdsBatch(cache, SortedByLabels(fillKnowSeriesIds(cache, infos)),
                     BatchSeries(SortedByLabels(fillKnowSeriesIds(cache, infos))), so)

\* setSeriesIds: the error, the series cache and the buffer afterwards, and
\* the number of get_series_id calls queued
setSeriesIds(cache, infos, so) ==
    IF numMissingSeries(cache, infos) = 0
    THEN [err |-> FALSE, cache |-> cache,
          infos |-> fillKnowSeriesIds(cache, infos), calls |-> 0]
    ELSE SetIdsBatch(cache, fillKnowSeriesIds(cache, infos),
                     BatchSeries(fillKnowSeriesIds(cache, infos)), so)

\* the outcomes the store can give setSeriesIds on this buffer
SetSeriesOutcomes(cache, infos) ==
    IF numMissingSeries(cache, infos) = 0
    THEN {[assigned |-> 0, err |-> FALSE]}
    ELSE SeriesOutcomes(Len(BatchSeries(fillKnowSeriesIds(cache, infos))))

(***************************************************************************)
(* State.                                                                  *)
(***************************************************************************)
VARIABLES
    asyncAcks,        \* Cfg.AsyncAcks
    closed,           \* Close() has been called
    crashed,          \* "no", or the panic that stopped the process
    faults,           \* failures the store and the cache have answered so far
    pc,               \* pc[r]: where InsertData call r stands
    bgpc,             \* bgpc[r]: the background goroutine of an async call
    rows,             \* rows[r]: the rows map of call r
    todo,             \* todo[r]: metrics the range loop has still to visit
    cur,              \* cur[r]: <<k, m>>, the mailbox obtained for metric m
    latch,            \* latch[r]: the WaitGroup counter workFinished
    errChan,          \* errChan[r]: [buf, closed], the 1-capacity error sink
    errVar,           \* errVar[r]: the variable err the async closure shares
    ret,              \* ret[r]: what InsertData returned
    inserters,        \* inserters[m]: the maker of the registered mailbox, or 0
    mailbox,          \* mailbox[c]: requests buffered in channel c
    chClosed,         \* chClosed[c]: channel c is closed
    wpc,              \* wpc[c]: where the writer of channel c stands
    writerErr,        \* the error runInserterRoutineFailure of c was given
    needsResponse,    \* pending.needsResponse of the writer of c (0: zero task)
    sampleInfos,      \* pending.batch.sampleInfos of the writer of c
    seriesCache,      \* handler.seriesCache of the writer of c
    signal,           \* tokens in completeMetricCreation (capacity 1)
    signalClosed,     \* completeMetricCreation is closed
    cpc,              \* where the completer goroutine stands
    finalizeCalls,    \* calls of CompleteMetricCreation by the completer (history)
    possiblyNew,      \* possiblyNew[c]: the writer of c got possiblyNew = true
    unserved,         \* writers that got possiblyNew = true and no call of
                      \* CompleteMetricCreation has begun since (history)
    store,            \* store[m]: rows copied into the table of metric m
    copied,           \* copied[m]: CopyFrom has been called for metric m
    sent,             \* sent[c]: requests enqueued on c, in order (history)
    decs,             \* decs[r][m]: Done() calls for the task of (r, m) (history)
    failedFlush,      \* requests a failed flush carried (history)
    poisoned,         \* requests a failed writer answered (history)
    dropLog,          \* async calls whose error the background task logged
    flushLog          \* the last flushPending: tasks without a Done call
                      \* (missed), tasks left in the list (left), its error
                      \* (err), its CopyFrom calls (copyCalls), the label
                      \* sets of its buffer (labels), the fingerprints
                      \* cached before it (known), the get_series_id calls
                      \* it queued (calls), the numbers of assignments made
                      \* to the seriesID of its batches (writes)

callerVars == <<pc, bgpc, rows, todo, cur, errVar, ret>>
latchVars == <<latch, errChan>>
chanVars == <<inserters, mailbox, chClosed>>
writerVars == <<wpc, writerErr, needsResponse, sampleInfos, seriesCache>>
storeVars == <<faults, signal, signalClosed, store, copied>>
completerVars == <<cpc, finalizeCalls, possiblyNew, unserved>>
histVars == <<sent, decs, failedFlush, poisoned, dropLog, flushLog>>
vars == <<asyncAcks, closed, crashed, callerVars, latchVars, chanVars,
          writerVars, storeVars, completerVars, histVars>>

NoChan == <<0, "A">>
NoRows == RowsMap({}, << >>, << >>)
NoRet == [rows |-> -1, err |-> NoErr]
NoFlush == [missed |-> 0, left |-> 0, err |-> NoErr, copyCalls |-> 0,
            labels |-> {}, known |-> {}, calls |-> 0, writes |-> {}]
EmptyCache == [k \in {} |-> 0]

Init ==
    /\ asyncAcks \in BOOLEAN
    /\ closed = FALSE
    /\ crashed = "no"
    /\ faults = 0
    /\ pc = [r \in Reqs |-> "idle"]
    /\ bgpc = [r \in Reqs |-> "none"]
    /\ rows = [r \in Reqs |-> NoRows]
    /\ todo = [r \in Reqs |-> {}]
    /\ cur = [r \in Reqs |-> NoChan]
    /\ latch = [r \in Reqs |-> 0]
    /\ errChan = [r \in Reqs |-> [buf |-> << >>, closed |-> FALSE]]
    /\ errVar = [r \in Reqs |-> NoErr]
    /\ ret = [r \in Reqs |-> NoRet]
    /\ inserters = [m \in Metrics |-> 0]
    /\ mailbox = [c \in Chans |-> << >>]
    /\ chClosed = [c \in Chans |-> FALSE]
    /\ wpc = [c \in Chans |-> "none"]
    /\ writerErr = [c \in Chans |-> NoErr]
    /\ needsResponse = [c \in Chans |-> << >>]
    /\ sampleInfos = [c \in Chans |-> << >>]
    /\ seriesCache = [c \in Chans |-> EmptyCache]
    /\ signal = 0
    /\ signalClosed = FALSE
    /\ cpc = "wait"
    /\ finalizeCalls = 0
    /\ possiblyNew = [c \in Chans |-> FALSE]
    /\ unserved = {}
    /\ store = [m \in Metrics |-> << >>]
    /\ copied = [m \in Metrics |-> FALSE]
    /\ sent = [c \in Chans |-> << >>]
    /\ decs = [r \in Reqs |-> [m \in Metrics |-> 0]]
    /\ failedFlush = {}
    /\ poisoned = {}
    /\ dropLog = {}
    /\ flushLog = NoFlush

Running == crashed = "no"

(***************************************************************************)
(* The facade: InsertData, insertMetricData, getMetricInserter.            *)
(***************************************************************************)
\* the []samplesInfo request r carries for metric m
ReqData(r, m) == MkData(r, rows[r].data[m])

\* numRows: the sum of len(si.samples) over every batch of the request
NumRows(r) == SetSum([m \in Metrics |-> SumN(rows[r].data[m])], rows[r].ms)

\* InsertData up to the range loop: the latch gets len(rows).  The calls
\* are numbered in the order they begin.
InsertDataBegin(r, pool) ==
    /\ Running
    /\ pc[r] = "idle"
    /\ IF r = 1 THEN TRUE ELSE pc[r - 1] # "idle"
    /\ \E rm \in pool :
          /\ rows' = [rows EXCEPT ![r] = rm]
          /\ todo' = [todo EXCEPT ![r] = rm.ms]
          /\ latch' = [latch EXCEPT ![r] = Cardinality(rm.ms)]
    /\ pc' = [pc EXCEPT ![r] = "loop"]
    /\ UNCHANGED completerVars
    /\ UNCHANGED <<asyncAcks, closed, crashed, bgpc, cur, errVar, ret, errChan,
                   chanVars, writerVars, storeVars, histVars>>

\* getMetricInserter, p.inserters.Load(metric), for the next key of the map
Load(r, m) ==
    /\ Running
    /\ pc[r] = "loop"
    /\ m \in todo[r]
    /\ todo' = [todo EXCEPT ![r] = @ \ {m}]
    /\ cur' = [cur EXCEPT ![r] = <<inserters[m], m>>]
    /\ pc' = [pc EXCEPT ![r] = IF inserters[m] # 0 THEN "send" ELSE "los"]
    /\ UNCHANGED completerVars
    /\ UNCHANGED <<asyncAcks, closed, crashed, bgpc, rows, errVar, ret, latchVars,
                   chanVars, writerVars, storeVars, histVars>>

\* A faulty LoadOrStore that stores the new channel whatever the map holds.
LoadOrStoreAlwaysStores(r, m) == [old |-> FALSE, actual |-> r]

\* p.inserters.LoadOrStore(metric, c): whether a channel was there already,
\* and the channel that is in the map afterwards
LoadOrStoreResult(r, m) ==
    IF inserters[m] = 0
    THEN [old |-> FALSE, actual |-> r]
    ELSE [old |-> TRUE, actual |-> inserters[m]]

\* getMetricInserter after a failed Load: make the channel, LoadOrStore, and
\* spawn runInserterRoutine if the channel was stored
GetMetricInserter(r, m, res) ==
    /\ inserters' = [inserters EXCEPT ![m] = res.actual]
    /\ cur' = [cur EXCEPT ![r] = <<res.actual, m>>]
    /\ wpc' = IF res.old THEN wpc ELSE [wpc EXCEPT ![<<r, m>>] = "start"]

LoadOrStore(r) ==
    /\ Running
    /\ pc[r] = "los"
    /\ GetMetricInserter(r, cur[r][2], LoadOrStoreResult(r, cur[r][2]))
    /\ pc' = [pc EXCEPT ![r] = "send"]
    /\ UNCHANGED completerVars
    /\ UNCHANGED <<asyncAcks, closed, crashed, bgpc, rows, todo, errVar, ret,
                   latchVars, mailbox, chClosed, writerErr, needsResponse,
                   sampleInfos, seriesCache, storeVars, histVars>>

\* insertMetricData: inserter <- insertDataRequest{...}
Send(r) ==
    /\ Running
    /\ pc[r] = "send"
    /\ IF chClosed[cur[r]]
       THEN /\ crashed' = "send on closed mailbox"
            /\ UNCHANGED <<mailbox, sent, pc, cur>>
       ELSE /\ Len(mailbox[cur[r]]) < chanCap
            /\ mailbox' = [mailbox EXCEPT ![cur[r]] = Append(@, r)]
            /\ sent' = [sent EXCEPT ![cur[r]] = Append(@, r)]
            /\ cur' = [cur EXCEPT ![r] = NoChan]
            /\ pc' = [pc EXCEPT ![r] = IF todo[r] = {} THEN "after" ELSE "loop"]
            /\ UNCHANGED crashed
    /\ UNCHANGED completerVars
    /\ UNCHANGED <<asyncAcks, closed, bgpc, rows, todo, errVar, ret,
                   latchVars, inserters, chClosed, writerVars, storeVars,
                   decs, failedFlush, poisoned, dropLog, flushLog>>

\* A faulty read of the error sink that never finds an error.
ReadErrChanNothing(r) == NoErr

\* select { case err = <-errChan: default: }
ReadErrChan(r) == IF errChan[r].buf = << >> THEN NoErr ELSE Head(errChan[r].buf)

\* synchronous mode: Wait, read the error sink, close it, return
SyncReturn(r) ==
    /\ Running
    /\ ~asyncAcks
    /\ pc[r] = "after"
    /\ latch[r] = 0
    /\ errChan' = [errChan EXCEPT ![r] = [buf |-> << >>, closed |-> TRUE]]
    /\ ret' = [ret EXCEPT ![r] = [rows |-> NumRows(r), err |-> ReadErrChan(r)]]
    /\ pc' = [pc EXCEPT ![r] = "done"]
    /\ UNCHANGED completerVars
    /\ UNCHANGED <<asyncAcks, closed, crashed, bgpc, rows, todo, cur, errVar,
                   latch, chanVars, writerVars, storeVars, histVars>>

\* asynchronous mode: go func() { ... }
AsyncSpawn(r) ==
    /\ Running
    /\ asyncAcks
    /\ pc[r] = "after"
    /\ bgpc' = [bgpc EXCEPT ![r] = "wait"]
    /\ pc' = [pc EXCEPT ![r] = "ret"]
    /\ UNCHANGED completerVars
    /\ UNCHANGED <<asyncAcks, closed, crashed, rows, todo, cur, errVar, ret,
                   latchVars, chanVars, writerVars, storeVars, histVars>>

\* the values `return numRows, err` can read from the variable err it shares
\* with the goroutine: the read is not ordered with the goroutine's write
AsyncErrRead(r) == {NoErr, errVar[r]}

\* asynchronous mode: return numRows, err
AsyncReturn(r) ==
    /\ Running
    /\ pc[r] = "ret"
    /\ \E e \in AsyncErrRead(r) :
          ret' = [ret EXCEPT ![r] = [rows |-> NumRows(r), err |-> e]]
    /\ pc' = [pc EXCEPT ![r] = "done"]
    /\ UNCHANGED completerVars
    /\ UNCHANGED <<asyncAcks, closed, crashed, bgpc, rows, todo, cur, errVar,
                   latchVars, chanVars, writerVars, storeVars, histVars>>

\* A faulty background goroutine that does not wait for the latch.
BackgroundWithoutWait(r) ==
    /\ Running
    /\ bgpc[r] = "wait"
    /\ errVar' = [errVar EXCEPT ![r] = ReadErrChan(r)]
    /\ errChan' = [errChan EXCEPT ![r] = [buf |-> << >>, closed |-> TRUE]]
    /\ dropLog' = IF ReadErrChan(r) # NoErr THEN dropLog \cup {r} ELSE dropLog
    /\ bgpc' = [bgpc EXCEPT ![r] = "done"]
    /\ UNCHANGED completerVars
    /\ UNCHANGED <<asyncAcks, closed, crashed, pc, rows, todo, cur, ret, latch,
                   chanVars, writerVars, storeVars,
                   sent, decs, failedFlush, poisoned, flushLog>>

\* the background goroutine: Wait, read the error sink into err, close, log
Background(r) ==
    /\ Running
    /\ bgpc[r] = "wait"
    /\ latch[r] = 0
    /\ errVar' = [errVar EXCEPT ![r] = ReadErrChan(r)]
    /\ errChan' = [errChan EXCEPT ![r] = [buf |-> << >>, closed |-> TRUE]]
    /\ dropLog' = IF ReadErrChan(r) # NoErr THEN dropLog \cup {r} ELSE dropLog
    /\ bgpc' = [bgpc EXCEPT ![r] = "done"]
    /\ UNCHANGED completerVars
    /\ UNCHANGED <<asyncAcks, closed, crashed, pc, rows, todo, cur, ret, latch,
                   chanVars, writerVars, storeVars,
                   sent, decs, failedFlush, poisoned, flushLog>>

\* Close(): close the completer channel and every registered mailbox
Close ==
    /\ Running
    /\ ~closed
    /\ closed' = TRUE
    /\ signalClosed' = TRUE
    /\ chClosed' = [c \in Chans |-> chClosed[c] \/ inserters[c[2]] = c[1]]
    /\ UNCHANGED completerVars
    /\ UNCHANGED <<asyncAcks, crashed, callerVars, latchVars, inserters, mailbox,
                   writerVars, faults, signal, store, copied, histVars>>

(***************************************************************************)
(* Channel and latch primitives, as state transformers on                  *)
(* st = [latch, errChan, decs, panic, done].                               *)
(***************************************************************************)
CurSt == [latch |-> latch, errChan |-> errChan, decs |-> decs, panic |-> "no",
          done |-> 0]

\* A faulty send that replaces the error the sink holds.
TrySendErrOverwrites(st, r, err) ==
    IF st.errChan[r].closed
    THEN [st EXCEPT !.panic = "send on closed errChan"]
    ELSE [st EXCEPT !.errChan[r].buf = <<err>>]

\* A faulty try-send that drops every error.
TrySendErrDropped(st, r, err) == st

\* select { case errChan <- err: default: }
TrySendErr(st, r, err) ==
    IF st.errChan[r].closed
    THEN [st EXCEPT !.panic = "send on closed errChan"]
    ELSE IF Len(st.errChan[r].buf) < 1
         THEN [st EXCEPT !.errChan[r].buf = Append(@, err)]
         ELSE st

\* finished.Done() for the task of request r on metric m
Done(st, r, m) ==
    IF st.latch[r] - 1 < 0
    THEN [st EXCEPT !.panic = "negative WaitGroup counter"]
    ELSE [st EXCEPT !.latch[r] = @ - 1, !.decs[r][m] = @ + 1, !.done = @ + 1]

\* Done() unless the send before it has panicked
DoneUnlessPanic(st, r, m) == IF st.panic # "no" THEN st ELSE Done(st, r, m)

\* One iteration of the loop over pending.needsResponse in flushPending.
\* For a zero insertDataTask the send on the nil channel is never ready and
\* Done() on the nil *sync.WaitGroup panics.
DeliverOne(st, t, m, err) ==
    IF t = 0
    THEN [st EXCEPT !.panic = "nil WaitGroup"]
    ELSE DoneUnlessPanic(IF err # NoErr THEN TrySendErr(st, t, err) ELSE st, t, m)

RECURSIVE Deliver(_, _, _, _)
Deliver(st, tasks, m, err) ==
    IF tasks = << >> \/ st.panic # "no" THEN st
    ELSE Deliver(DeliverOne(st, Head(tasks), m, err), Tail(tasks), m, err)

(***************************************************************************)
(* flushPending.                                                           *)
(***************************************************************************)
\* A faulty CopyFrom whose error is lost: the flush reports success although
\* the store took no row.
CopyFromSwallowsError(s, cp, copyOk) ==
    [cache |-> s.cache, calls |-> s.calls, copyCalls |-> 1, panic |-> cp.panic,
     infos |-> s.infos,
     rowsOut |-> IF copyOk /\ ~cp.panic THEN cp.rows ELSE << >>,
     err |-> NoErr]

\* h.conn.CopyFrom over the iterator, after setSeriesIds returned s without
\* an error: cp is what driving the iterator gives
CopyFrom(s, cp, copyOk) ==
    [cache |-> s.cache, calls |-> s.calls, copyCalls |-> 1, panic |-> cp.panic,
     infos |-> s.infos,
     rowsOut |-> IF copyOk /\ ~cp.panic THEN cp.rows ELSE << >>,
     err |-> IF copyOk THEN NoErr ELSE "copy"]

\* A faulty closure that goes on to CopyFrom after setSeriesIds failed.
FlushStoreOfCopiesAnyway(s, copyOk) ==
    [cache |-> s.cache, calls |-> s.calls, copyCalls |-> 1,
     panic |-> CopyRows(s.infos).panic, infos |-> s.infos,
     rowsOut |-> IF CopyRows(s.infos).panic THEN << >> ELSE CopyRows(s.infos).rows,
     err |-> IF s.err THEN "series" ELSE IF copyOk THEN NoErr ELSE "copy"]

\* the closure of flushPending, given the result s of setSeriesIds
FlushStoreOf(s, copyOk) ==
    IF s.err
    THEN [cache |-> s.cache, calls |-> s.calls, copyCalls |-> 0, panic |-> FALSE,
          infos |-> s.infos, rowsOut |-> << >>, err |-> "series"]
    ELSE CopyFrom(s, CopyRows(s.infos), copyOk)

\* setSeriesIds, then CopyFrom: the error of the flush, the rows the store
\* took, the series cache afterwards
FlushStore(cache, infos, o) ==
    FlushStoreOf(setSeriesIds(cache, infos, o.so), o.copyOk)

\* what the store can answer during a flush of this buffer; it fails at most
\* MaxFaults times in a run
FlushOutcomes(cache, infos) ==
    {o \in [so : SetSeriesOutcomes(cache, infos), copyOk : BOOLEAN] :
        /\ o.so.err => o.copyOk
        /\ (o.so.err \/ ~o.copyOk) => faults < MaxFaults}

\* the tasks flushPending has not zeroed when it stops after `done` of them
TasksLeft(tasks, done) == SubSeq(tasks, done + 1, Len(tasks))

\* what flushPending of the writer of c did: fs is the outcome of its store
\* calls
FlushLogOf(c, fs, missed, left) ==
    [missed |-> missed, left |-> left, err |-> fs.err, copyCalls |-> fs.copyCalls,
     labels |-> {fs.infos[i].labels : i \in 1 .. Len(fs.infos)},
     known |-> DOMAIN seriesCache[c], calls |-> fs.calls,
     writes |-> {fs.infos[i].writes : i \in 1 .. Len(fs.infos)}]

\* flushPending stopped by a panic of the row iterator inside CopyFrom
FlushPanics(c, tasks, fs) ==
    /\ crashed' = "index out of range"
    /\ flushLog' = FlushLogOf(c, fs, Len(tasks), Len(tasks))
    /\ needsResponse' = [needsResponse EXCEPT ![c] = tasks]
    /\ seriesCache' = [seriesCache EXCEPT ![c] = fs.cache]
    /\ copied' = [copied EXCEPT ![c[2]] = @ \/ fs.copyCalls > 0]
    /\ UNCHANGED <<latch, errChan, decs, store, faults, failedFlush, sampleInfos,
                   wpc>>

\* flushPending after the store calls: st is the outcome of the loop over
\* pending.needsResponse; the buffer and the task list are reset
FlushResponds(c, tasks, fs, st, nextpc) ==
    /\ crashed' = st.panic
    /\ latch' = st.latch
    /\ errChan' = st.errChan
    /\ decs' = st.decs
    /\ flushLog' = FlushLogOf(c, fs, Len(tasks) - st.done,
                               IF st.panic # "no" THEN Len(tasks) - st.done ELSE 0)
    /\ needsResponse' = [needsResponse EXCEPT ![c] =
                            IF st.panic # "no" THEN TasksLeft(tasks, st.done)
                            ELSE << >>]
    /\ sampleInfos' = [sampleInfos EXCEPT ![c] = << >>]
    /\ seriesCache' = [seriesCache EXCEPT ![c] = fs.cache]
    /\ store' = [store EXCEPT ![c[2]] = @ \o fs.rowsOut]
    /\ copied' = [copied EXCEPT ![c[2]] = @ \/ fs.copyCalls > 0]
    /\ faults' = IF fs.err # NoErr THEN faults + 1 ELSE faults
    /\ failedFlush' = IF fs.err # NoErr
                      THEN failedFlush \cup ({tasks[i] : i \in 1 .. Len(tasks)} \ {0})
                      ELSE failedFlush
    /\ wpc' = IF st.panic # "no" THEN wpc ELSE [wpc EXCEPT ![c] = nextpc]

FlushApplies(c, tasks, fs, nextpc) ==
    IF fs.panic
    THEN FlushPanics(c, tasks, fs)
    ELSE \E st \in {Deliver(CurSt, tasks, c[2], fs.err)} :
            FlushResponds(c, tasks, fs, st, nextpc)

\* flushPending of the writer of c on the buffer (tasks, infos)
flushPending(c, tasks, infos, nextpc) ==
    \E o \in FlushOutcomes(seriesCache[c], infos) :
        \E fs \in {FlushStore(seriesCache[c], infos, o)} :
            FlushApplies(c, tasks, fs, nextpc)

\* the buffer is kept: no flush in this step
KeepPending(c, tasks, infos, nextpc) ==
    /\ needsResponse' = [needsResponse EXCEPT ![c] = tasks]
    /\ sampleInfos' = [sampleInfos EXCEPT ![c] = infos]
    /\ wpc' = [wpc EXCEPT ![c] = nextpc]
    /\ UNCHANGED <<crashed, latch, errChan, decs, flushLog, seriesCache, store,
                   copied, faults, failedFlush>>

(***************************************************************************)
(* handleReq and the writer loop.                                          *)
(***************************************************************************)
\* append(p.needsResponse, task); the zero tasks a buffer holds are counted
\* up to MaxZeroTasks
AddTask(tasks, t) ==
    IF t = 0 /\ Cardinality({i \in 1 .. Len(tasks) : tasks[i] = 0}) >= MaxZeroTasks
    THEN tasks
    ELSE Append(tasks, t)

\* pendingBuffer.addReq
addReq(tasks, infos, t, data) ==
    [tasks |-> AddTask(tasks, t), infos |-> infos \o data,
     needsFlush |-> Len(infos \o data) > flushSize]

hasPendingReqs(infos) == Len(infos) > 0

\* the data of a received request; the zero value of a closed channel has none
DataOf(t, m) == IF t = 0 THEN << >> ELSE ReqData(t, m)

\* the head of the outer loop: block on the mailbox or enter hotReceive
TopOrHot(infos) == IF hasPendingReqs(infos) THEN "hot" ELSE "top"

\* handleReq after addReq returned a, and the loop control that follows it:
\* in hotReceive (hot) a buffer of flushSize batches breaks the loop, which
\* is followed by flush()
AfterAddReq(c, a, hot) ==
    IF a.needsFlush \/ (hot /\ Len(a.infos) >= flushSize)
    THEN flushPending(c, a.tasks, a.infos, IF a.needsFlush /\ hot THEN "hot" ELSE "top")
    ELSE KeepPending(c, a.tasks, a.infos, IF hot THEN "hot" ELSE TopOrHot(a.infos))

\* handleReq(req) for the received request t
handleReq(c, t, hot) ==
    \E a \in {addReq(needsResponse[c], sampleInfos[c], t,
                     fillKnowSeriesIds(seriesCache[c], DataOf(t, c[2])))} :
        AfterAddReq(c, a, hot)

\* metricTableNames.Get: a hit, ErrEntryNotFound, or another error
CacheGetOutcomes == {"hit", "miss", "err"}

\* getMetricTableName: possiblyNew true or false, or an error
TableOutcomes == {"new", "old", "err"}

\* what the cache and the store answer a starting writer; they fail at most
\* MaxFaults times in a run
StartOutcomes ==
    {o \in [get : CacheGetOutcomes, tab : TableOutcomes] :
        /\ o.get # "miss" => o.tab = "old"
        /\ (o.get = "err" \/ o.tab = "err") => faults < MaxFaults}

\* the error runInserterRoutine ends with, if any
StartError(o) ==
    IF o.get = "err" THEN "cache" ELSE IF o.tab = "err" THEN "table" ELSE NoErr

\* select { case errChan <- err: default: } and runInserterRoutineFailure
StartFails(c, err, st) ==
    /\ crashed' = st.panic
    /\ errChan' = st.errChan
    /\ writerErr' = [writerErr EXCEPT ![c] = err]
    /\ wpc' = [wpc EXCEPT ![c] = "failed"]
    /\ faults' = faults + 1
    /\ UNCHANGED <<signal, possiblyNew, unserved>>

\* A faulty signal channel without a capacity: every send is buffered.
SignalSendUnbounded(sig) == sig + 1

\* select { case completeMetricCreationSignal <- struct{}{}: default: } on
\* the open channel of capacity 1 holding sig tokens
SignalSend(sig) == IF sig < 1 THEN sig + 1 ELSE sig

\* the signal if possiblyNew, then the handler is made
StartSucceeds(c, o) ==
    /\ crashed' = IF o.tab = "new" /\ signalClosed THEN "send on closed signal"
                  ELSE crashed
    /\ signal' = IF o.tab = "new" /\ ~signalClosed THEN SignalSend(signal) ELSE signal
    /\ possiblyNew' = [possiblyNew EXCEPT ![c] = o.tab = "new"]
    /\ unserved' = IF o.tab = "new" THEN unserved \cup {c} ELSE unserved
    /\ wpc' = [wpc EXCEPT ![c] = "top"]
    /\ UNCHANGED <<errChan, writerErr, faults>>

\* runInserterRoutine up to the main loop; errChan is the error sink of the
\* request that spawned the writer
WriterStart(c) ==
    /\ Running
    /\ wpc[c] = "start"
    /\ \E o \in StartOutcomes :
          IF StartError(o) # NoErr
          THEN \E st \in {TrySendErr(CurSt, c[1], StartError(o))} :
                  StartFails(c, StartError(o), st)
          ELSE StartSucceeds(c, o)
    /\ UNCHANGED <<asyncAcks, closed, callerVars, latch, chanVars, needsResponse,
                   sampleInfos, seriesCache, signalClosed, store, copied, histVars,
                   cpc, finalizeCalls>>

\* one iteration of runInserterRoutineFailure for the received request r
FailureResponds(c, r, st) ==
    /\ crashed' = st.panic
    /\ errChan' = st.errChan
    /\ latch' = st.latch
    /\ decs' = st.decs
    /\ poisoned' = poisoned \cup {r}
    /\ mailbox' = [mailbox EXCEPT ![c] = Tail(@)]

\* runInserterRoutineFailure: for idr := range input { ... }
WriterFailure(c) ==
    /\ Running
    /\ wpc[c] = "failed"
    /\ mailbox[c] # << >>
    /\ \E st \in {DoneUnlessPanic(TrySendErr(CurSt, Head(mailbox[c]), "prev"),
                                  Head(mailbox[c]), c[2])} :
          FailureResponds(c, Head(mailbox[c]), st)
    /\ UNCHANGED completerVars
    /\ UNCHANGED <<asyncAcks, closed, callerVars, inserters, chClosed, writerVars,
                   storeVars, sent, failedFlush, dropLog, flushLog>>

\* runInserterRoutineFailure: the range ends when the channel is closed and
\* drained
WriterFailureExit(c) ==
    /\ Running
    /\ wpc[c] = "failed"
    /\ mailbox[c] = << >>
    /\ chClosed[c]
    /\ wpc' = [wpc EXCEPT ![c] = "exited"]
    /\ UNCHANGED completerVars
    /\ UNCHANGED <<asyncAcks, closed, crashed, callerVars, latchVars, chanVars,
                   writerErr, needsResponse, sampleInfos, seriesCache, storeVars,
                   histVars>>

\* blockingHandleReq: req, ok := <-h.input with a request buffered
BlockingHandleReq(c) ==
    /\ Running
    /\ wpc[c] = "top"
    /\ mailbox[c] # << >>
    /\ mailbox' = [mailbox EXCEPT ![c] = Tail(@)]
    /\ handleReq(c, Head(mailbox[c]), FALSE)
    /\ UNCHANGED completerVars
    /\ UNCHANGED <<asyncAcks, closed, callerVars, inserters, chClosed, writerErr,
                   signal, signalClosed, sent, poisoned, dropLog>>

\* blockingHandleReq: !ok, the writer returns
BlockingExit(c) ==
    /\ Running
    /\ wpc[c] = "top"
    /\ mailbox[c] = << >>
    /\ chClosed[c]
    /\ wpc' = [wpc EXCEPT ![c] = "exited"]
    /\ UNCHANGED completerVars
    /\ UNCHANGED <<asyncAcks, closed, crashed, callerVars, latchVars, chanVars,
                   writerErr, needsResponse, sampleInfos, seriesCache, storeVars,
                   histVars>>

\* case req := <-h.input of nonblockingHandleReq: the request at the head of
\* the mailbox, or the zero request (0) of a closed and drained channel
NonblockingReceive(c) ==
    IF mailbox[c] # << >> THEN {Head(mailbox[c])}
    ELSE IF chClosed[c] THEN {0}
    ELSE {}

\* one iteration of hotReceive in which nonblockingHandleReq receives
HotReceive(c) ==
    /\ Running
    /\ wpc[c] = "hot"
    /\ \E t \in NonblockingReceive(c) : handleReq(c, t, TRUE)
    /\ mailbox' = [mailbox EXCEPT ![c] = IF @ = << >> THEN @ ELSE Tail(@)]
    /\ UNCHANGED completerVars
    /\ UNCHANGED <<asyncAcks, closed, callerVars, inserters, chClosed, writerErr,
                   signal, signalClosed, sent, poisoned, dropLog>>

\* nonblockingHandleReq takes the default case: hotReceive ends, flush()
HotFlush(c) ==
    /\ Running
    /\ wpc[c] = "hot"
    /\ NonblockingReceive(c) = {}
    /\ IF hasPendingReqs(sampleInfos[c])
       THEN flushPending(c, needsResponse[c], sampleInfos[c], "top")
       ELSE KeepPending(c, needsResponse[c], sampleInfos[c], "top")
    /\ UNCHANGED completerVars
    /\ UNCHANGED <<asyncAcks, closed, callerVars, chanVars, writerErr,
                   signal, signalClosed, sent, poisoned, dropLog>>

(***************************************************************************)
(* runCompleteMetricCreationWorker: for range p.completeMetricCreation.    *)
(***************************************************************************)
\* a token is received and CompleteMetricCreation is called
CompleterReceive ==
    /\ Running
    /\ cpc = "wait"
    /\ signal > 0
    /\ signal' = signal - 1
    /\ finalizeCalls' = finalizeCalls + 1
    /\ unserved' = {}
    /\ cpc' = "call"
    /\ UNCHANGED <<asyncAcks, closed, crashed, callerVars, latchVars, chanVars,
                   writerVars, faults, signalClosed, store, copied, possiblyNew,
                   histVars>>

\* CompleteMetricCreation returns; an error is logged and dropped
CompleterReturn ==
    /\ Running
    /\ cpc = "call"
    /\ cpc' = "wait"
    /\ UNCHANGED <<asyncAcks, closed, crashed, callerVars, latchVars, chanVars,
                   writerVars, storeVars, finalizeCalls, possiblyNew, unserved,
                   histVars>>

\* the range ends: the channel is closed and drained
CompleterExit ==
    /\ Running
    /\ cpc = "wait"
    /\ signal = 0
    /\ signalClosed
    /\ cpc' = "exited"
    /\ UNCHANGED <<asyncAcks, closed, crashed, callerVars, latchVars, chanVars,
                   writerVars, storeVars, finalizeCalls, possiblyNew, unserved,
                   histVars>>

Completer == CompleterReceive \/ CompleterReturn \/ CompleterExit

(***************************************************************************)
(* Specifications.                                                         *)
(***************************************************************************)
\* the steps of InsertData call r in synchronous mode
Caller(r, pool) ==
    \/ InsertDataBegin(r, pool)
    \/ \E m \in Metrics : Load(r, m)
    \/ LoadOrStore(r)
    \/ Send(r)
    \/ SyncReturn(r)

\* the steps of InsertData call r in asynchronous mode, and of its goroutine
AsyncCaller(r, pool) ==
    \/ InsertDataBegin(r, pool)
    \/ \E m \in Metrics : Load(r, m)
    \/ LoadOrStore(r)
    \/ Send(r)
    \/ AsyncSpawn(r)
    \/ AsyncReturn(r)
    \/ Background(r)

\* the steps of the writer goroutine of channel c while the channel is open
OpenWriter(c) ==
    \/ WriterStart(c)
    \/ WriterFailure(c)
    \/ BlockingHandleReq(c)
    \/ HotReceive(c)
    \/ HotFlush(c)

\* the steps of the writer goroutine of channel c
Writer(c) ==
    \/ OpenWriter(c)
    \/ WriterFailureExit(c)
    \/ BlockingExit(c)

\* Synchronous mode, every rows map of Requests, Close at any moment.
Next ==
    \/ \E r \in Reqs : Caller(r, Requests)
    \/ \E c \in Chans : Writer(c)
    \/ Close

\* the engine configured with AsyncAcks off, and on
SyncInit == Init /\ asyncAcks = FALSE
AsyncInit == Init /\ asyncAcks = TRUE

Spec == SyncInit /\ [][Next]_vars

\* Asynchronous mode, without Close.
AsyncRequests ==
    { RowsMap({"A"}, << SampleBatch(1, 1) >>, << >>),
      RowsMap({"A", "B"}, << SampleBatch(1, 1) >>, << SampleBatch(2, 1) >>) }

AsyncNext ==
    \/ \E r \in Reqs : AsyncCaller(r, AsyncRequests)
    \/ \E c \in Chans : OpenWriter(c)

AsyncSpec == AsyncInit /\ [][AsyncNext]_vars

\* The creation of metrics and the completer: calls that create one or two
\* metrics, up to the start of the writers they spawn, the completer and
\* Close.  What a writer does after its start does not touch the signal
\* channel.
CompleterRequests ==
    { RowsMap({"A"}, << SampleBatch(1, 1) >>, << >>),
      RowsMap({"B"}, << >>, << SampleBatch(1, 1) >>),
      RowsMap({"A", "B"}, << SampleBatch(1, 1) >>, << SampleBatch(1, 1) >>) }

\* InsertData call r up to the end of its range loop
Enqueue(r, pool) ==
    \/ InsertDataBegin(r, pool)
    \/ \E m \in Metrics : Load(r, m)
    \/ LoadOrStore(r)
    \/ Send(r)

CompleterNext ==
    \/ \E r \in Reqs : Enqueue(r, CompleterRequests)
    \/ \E c \in Chans : WriterStart(c)
    \/ Completer
    \/ Close

CompleterSpec == SyncInit /\ [][CompleterNext]_vars

\* The same under fair scheduling of the completer and of the starting
\* writers; the store calls return (they are inside the steps).
CompleterFairness ==
    /\ WF_vars(Completer)
    /\ \A c \in Chans : WF_vars(WriterStart(c))

FairCompleterSpec == SyncInit /\ [][CompleterNext]_vars /\ CompleterFairness

\* Synchronous mode under fair scheduling: every goroutine that can take a
\* step eventually takes one, and every store call returns (a store call is
\* inside the step that makes it).  Close is not forced to happen.
FairRequests ==
    { RowsMap({"A"}, << >>, << >>),
      RowsMap({"A"}, << SampleBatch(1, 1) >>, << >>) }

FairNext ==
    \/ \E r \in Reqs : Caller(r, FairRequests)
    \/ \E c \in Chans : Writer(c)
    \/ Close

Fairness ==
    /\ \A r \in Reqs : WF_vars(Caller(r, FairRequests))
    /\ \A c \in Chans : WF_vars(Writer(c))

FairSpec == SyncInit /\ [][FairNext]_vars /\ Fairness

(***************************************************************************)
(* Properties.                                                             *)
(***************************************************************************)
Range(q) == {q[i] : i \in 1 .. Len(q)}

\* the mailbox registered for metric m
Registered(m) == <<inserters[m], m>>

\* request r has been enqueued on a mailbox of metric m
Enqueued(r, m) == \E c \in Chans : c[2] = m /\ r \in Range(sent[c])

\* the number of times request r has been enqueued for metric m
TimesEnqueued(r, m) ==
    Cardinality({x \in Chans \X (1 .. MaxReq) :
                    /\ x[1][2] = m
                    /\ x[2] <= Len(sent[x[1]])
                    /\ sent[x[1]][x[2]] = r})

\* the positions in store[m] of the rows of request r
StoredAt(r, m) == {p \in 1 .. Len(store[m]) : store[m][p][1] = r}

\* the samples <<batch, sample>> of request r found in store[m]
StoredSamples(r, m) == {<<store[m][p][2], store[m][p][3]>> : p \in StoredAt(r, m)}

\* the samples <<batch, sample>> request r carries for metric m
RequestSamples(r, m) ==
    UNION {{<<i, j>> : j \in 1 .. rows[r].data[m][i].n} :
              i \in 1 .. Len(rows[r].data[m])}

Returned(r) == pc[r] = "done"

\* The latch accounting that holds in every reachable state: the latch of
\* a call is its number of metrics minus the Done calls made for it, never
\* negative; a call is enqueued at most once per metric and only for its
\* own metrics; a task gets at most one Done call, and only once enqueued.
LatchAccounting ==
    \A r \in Reqs :
        /\ latch[r] >= 0
        /\ pc[r] # "idle" =>
              latch[r] = Cardinality(rows[r].ms)
                         - SetSum([m \in Metrics |-> decs[r][m]], Metrics)
        /\ \A m \in Metrics :
              /\ TimesEnqueued(r, m) <= 1
              /\ Enqueued(r, m) => m \in rows[r].ms
              /\ decs[r][m] <= TimesEnqueued(r, m)
        /\ pc[r] \in {"after", "ret", "done"} =>
              \A m \in rows[r].ms : TimesEnqueued(r, m) = 1

\* C1 (latch completeness, liveness): under fair scheduling, with every
\* store call returning, every request enqueued on a per-metric mailbox
\* eventually gets its Done call, unless the process panics or Close() is
\* called.  The claim itself is stronger (it has no exceptions).
C1_EnqueuedEventuallyDone ==
    \A r \in Reqs : \A m \in Metrics :
        Enqueued(r, m) ~> (decs[r][m] = 1 \/ crashed # "no" \/ closed)

\* C2 (latch exactly-once, safety): a flush makes one Done call for every
\* task attached since the previous flush and leaves the task list empty.
C2_FlushAnswersEveryTask == flushLog.missed = 0 /\ flushLog.left = 0

\* C3 (row conservation): in synchronous mode, for a call that returned no
\* error, the store holds for every metric exactly the samples of the
\* request: as many rows as the sample counts add up to, none missing, none
\* twice; and the call returned that number.
C3_RowConservation ==
    \A r \in Reqs :
        (~asyncAcks /\ Returned(r) /\ ret[r].err = NoErr) =>
            /\ \A m \in Metrics :
                  /\ Cardinality(StoredAt(r, m)) = SumN(rows[r].data[m])
                  /\ StoredSamples(r, m) = RequestSamples(r, m)
            /\ ret[r].rows =
                  SetSum([m \in Metrics |-> Cardinality(StoredAt(r, m))], Metrics)

\* a synchronous call of three samples in two batches returned no error
C3_Witness ==
    \E r \in Reqs :
        /\ ~asyncAcks /\ Returned(r) /\ ret[r].err = NoErr
        /\ Len(rows[r].data["A"]) = 2
        /\ Cardinality(StoredAt(r, "A")) = 3

\* the position of request r in the sequence q of enqueued requests
PosIn(q, r) == CHOOSE i \in 1 .. Len(q) : q[i] = r

\* the place of a stored row of metric m: enqueue order of its request,
\* then batch, then sample
RowRank(m, row) == <<PosIn(sent[Registered(m)], row[1]), row[2], row[3]>>

RankLess(a, b) ==
    \/ a[1] < b[1]
    \/ a[1] = b[1] /\ a[2] < b[2]
    \/ a[1] = b[1] /\ a[2] = b[2] /\ a[3] < b[3]

C5_SyncResult ==
    \A r \in Reqs :
        (~asyncAcks /\ Returned(r)) =>
            /\ latch[r] = 0
            /\ \A m \in rows[r].ms : decs[r][m] = 1
            /\ ret[r].rows = SetSum([m \in Metrics |-> SumN(rows[r].data[m])], Metrics)
            /\ ret[r].err # NoErr <=> (r \in failedFlush \/ r \in poisoned)

\* one synchronous call returned the error of a failed flush, another one
\* returned no error
C5_Witness ==
    \E r1, r2 \in Reqs :
        /\ ~asyncAcks /\ Returned(r1) /\ Returned(r2)
        /\ r1 \in failedFlush /\ ret[r1].err # NoErr
        /\ ret[r2].err = NoErr

\* the writer of c makes a step in which a flush fails with an error
FlushFails(c) ==
    /\ wpc[c] \in {"top", "hot"}
    /\ faults' = faults + 1
    /\ \/ mailbox'[c] # mailbox[c]
       \/ needsResponse'[c] # needsResponse[c]
       \/ sampleInfos'[c] # sampleInfos[c]

\* C6 (a flush failure is not terminal): a step in which a flush fails with
\* a series-id or copy error leaves the writer running, in its main loop,
\* with an empty buffer and an empty task list.
C6_WriterSurvivesFlushFailure ==
    [][\A c \in Chans :
          FlushFails(c) =>
              /\ crashed' = "no"
              /\ wpc'[c] \in {"top", "hot"}
              /\ sampleInfos'[c] = << >>
              /\ needsResponse'[c] = << >>]_vars

\* C7 (poisoned writer): once the table-name resolution of the writer of
\* metric X has failed, no CopyFrom is made for X and no row of X is stored;
\* every request the writer has taken from its mailbox got a Done call and
\* has an error on its error sink, and returns an error in synchronous
\* mode; a request none of whose metrics has a failed writer is not answered
\* by one.
C7_PoisonedWriter ==
    /\ \A c \in Chans :
          writerErr[c] # NoErr =>
              /\ ~copied[c[2]] /\ store[c[2]] = << >>
              /\ \A r \in Reqs :
                    (r \in Range(sent[c]) /\ r \notin Range(mailbox[c])) =>
                        /\ decs[r][c[2]] = 1
                        /\ r \in poisoned
                        /\ errChan[r].buf # << >> \/ errChan[r].closed
                        /\ (~asyncAcks /\ Returned(r)) => ret[r].err # NoErr
    /\ \A r \in poisoned :
          \E c \in Chans : writerErr[c] # NoErr /\ r \in Range(sent[c])

\* the table resolution of a writer failed, and both calls were answered by
\* it and returned an error
C7_Witness ==
    \E c \in Chans :
        /\ writerErr[c] = "table"
        /\ \A r \in Reqs :
              r \in poisoned /\ Returned(r) /\ ret[r].err # NoErr

\* C8 (exactly one writer per metric): for every metric at most one writer
\* has been spawned, the one of the mailbox registered in the inserters map,
\* and every request enqueued for the metric is on that mailbox.
C8_OneWriterPerMetric ==
    \A c \in Chans :
        /\ wpc[c] # "none" => Registered(c[2]) = c
        /\ sent[c] # << >> => Registered(c[2]) = c /\ wpc[c] # "none"

\* two calls first touch the same metric concurrently: both missed in Load,
\* one has stored its mailbox, the other has still to call LoadOrStore
C8_Witness ==
    \E r1, r2 \in Reqs :
        /\ r1 # r2
        /\ pc[r1] = "send" /\ cur[r1] = <<r1, "A">>
        /\ pc[r2] = "los" /\ cur[r2] = <<0, "A">>

\* request r was enqueued for metric m on a mailbox that Close() has closed
InFlightAtClose(r, m) ==
    \E c \in Chans : c[2] = m /\ chClosed[c] /\ r \in Range(sent[c])

\* C9 (shutdown): under fair scheduling, a request with at least one batch
\* that was enqueued on a mailbox before Close() closed it eventually gets
\* its Done call, unless the process panics.
C9_InFlightEventuallyDone ==
    \A r \in Reqs : \A m \in Metrics :
        (InFlightAtClose(r, m) /\ rows[r].data[m] # << >>)
            ~> (decs[r][m] = 1 \/ crashed # "no")

\* C10 (asynchronous insert result): an asynchronous call returns a nil
\* error.
C10_AsyncReturnsNil ==
    \A r \in Reqs : (asyncAcks /\ Returned(r)) => ret[r].err = NoErr

\* the calls that spawned at least one writer: the metrics one call creates
\* form one burst
Bursts == {r \in Reqs : \E m \in Metrics : wpc[<<r, m>>] # "none"}

\* the writers that observed possiblyNew = true and signalled
Signalled == {c \in Chans : possiblyNew[c]}

Dequeues(c) == mailbox[c] # << >> /\ mailbox'[c] = Tail(mailbox[c])

\* C12 (size flush trigger): a writer whose buffer holds more than flushSize
\* rows, counted as the sum of the sample counts of its batches, does not
\* take a further request from its mailbox: it has flushed first.
C12_FlushBeforeNextDequeue ==
    [][\A c \in Chans : SumN(sampleInfos[c]) > flushSize => ~Dequeues(c)]_vars

\* C13 (flush without further traffic): under fair scheduling, a buffer that
\* holds batches is eventually flushed, whether or not another request
\* arrives, unless the process panics.
C13_BufferEventuallyFlushed ==
    \A c \in Chans :
        sampleInfos[c] # << >> ~> (sampleInfos[c] = << >> \/ crashed # "no")

\* C17 (the metric-name cache is advisory): no writer is poisoned by an
\* error of the cache.
C17_CacheErrorNeverPoisons == \A c \in Chans : writerErr[c] # "cache"

\* C18 (writer termination): a writer never adds to its task list a request
\* that no producer enqueued.
C18_OnlyEnqueuedRequests == \A c \in Chans : 0 \notin Range(needsResponse[c])

\* C19 (row iterator): Values is never called on an index outside the sample
\* list of a batch.
C19_ValuesInRange == crashed # "index out of range"

\* the labels of the batch a stored row of metric m comes from
LabelsOfRow(m, row) == rows[row[1]].data[m][row[2]].labels

\* the label sets the calls have passed for metric m
LabelsSeen(m) ==
    UNION {{rows[r].data[m][i].labels : i \in 1 .. Len(rows[r].data[m])} :
              r \in Reqs}

\* C14 (series-id uniqueness): every stored row carries the id the store
\* returns for the labels of its batch, so rows of batches with equal labels
\* carry equal ids, in one flush or across flushes; a batch in a buffer is
\* unresolved or has that id; and every entry of a writer's series cache
\* maps the fingerprint of a label set to the id the store returns for it.
C14_SeriesIdUnique ==
    /\ \A m \in Metrics : \A p, q \in 1 .. Len(store[m]) :
          /\ store[m][p][4] = StoreSeriesId(LabelsOfRow(m, store[m][p]))
          /\ LabelsEqual(LabelsOfRow(m, store[m][p]), LabelsOfRow(m, store[m][q]))
                => store[m][p][4] = store[m][q][4]
    /\ \A c \in Chans :
          /\ \A i \in 1 .. Len(sampleInfos[c]) :
                sampleInfos[c][i].seriesID
                    \in {Unresolved, StoreSeriesId(sampleInfos[c][i].labels)}
          /\ \A k \in DOMAIN seriesCache[c] :
                \E l \in LabelsSeen(c[2]) :
                    k = LabelsString(l) /\ seriesCache[c][k] = StoreSeriesId(l)

\* the store holds rows of two calls with equal labels and a row with other
\* labels, and the writer has cached both ids
C14_Witness ==
    \E r1, r2 \in Reqs : \E p, q, x \in 1 .. Len(store["A"]) :
        /\ r1 # r2
        /\ store["A"][p][1] = r1 /\ store["A"][q][1] = r2
        /\ LabelsEqual(LabelsOfRow("A", store["A"][p]), LabelsOfRow("A", store["A"][q]))
        /\ ~LabelsEqual(LabelsOfRow("A", store["A"][p]), LabelsOfRow("A", store["A"][x]))
        /\ Cardinality(DOMAIN seriesCache[Registered("A")]) = 2

\* call r returns in this step
Returns(r) == pc[r] # "done" /\ pc'[r] = "done"

\* C16 (error sink): the sink of a request never holds more than one error;
\* an error it holds stays until the call returns, a later send for the
\* same request being dropped, and it is the error the call returns; no
\* writer sends on a sink that has been closed.
C16_FirstErrorKept ==
    [][/\ crashed' # "send on closed errChan"
       /\ \A r \in Reqs :
             /\ Len(errChan'[r].buf) <= 1
             /\ errChan[r].buf # << >> =>
                   IF Returns(r)
                   THEN ret'[r].err = Head(errChan[r].buf)
                   ELSE errChan'[r].buf = errChan[r].buf]_vars

\* the writer a call spawned failed at its start and left its error on the
\* sink of the call; the error the failed writer sent later for the call's
\* request was dropped, and the call returned the first one
C16_Witness ==
    \E r \in Reqs :
        /\ r \in poisoned
        /\ Returned(r)
        /\ ret[r].err \in {"table", "cache"}

\* C15 (series-id lookup grouping): the get_series_id calls a flush queues
\* are as many as the distinct label sets of its buffer whose fingerprint
\* was not in the series cache: batches with equal labels share one call,
\* cached label sets cause none.
C15_OneCallPerLabelSet ==
    flushLog.calls =
        Cardinality({l \in flushLog.labels : LabelsString(l) \notin flushLog.known})

\* a flush of a buffer with two label sets, one of them cached, queued one
\* call
C15_Witness ==
    /\ Cardinality(flushLog.labels) = 2
    /\ Cardinality(flushLog.known) = 1
    /\ flushLog.calls = 1

\* the tasks of the flush the writer of c makes in this step: those of its
\* task list and that of the request it takes from its mailbox
FlushTasks(c) ==
    (Range(needsResponse[c])
        \cup (IF Dequeues(c) THEN {Head(mailbox[c])} ELSE {})) \ {0}

\* C20 (no partial flush): a flush whose series-id resolution fails makes
\* no CopyFrom call and stores no row, and every task of the flush gets an
\* error on its sink and its Done call.
C20_NoPartialFlush ==
    [][\A c \in Chans :
          (FlushFails(c) /\ flushLog'.err = "series") =>
              /\ flushLog'.copyCalls = 0
              /\ store' = store
              /\ copied' = copied
              /\ \A t \in FlushTasks(c) :
                    /\ errChan'[t].buf # << >>
                    /\ decs'[t][c[2]] = decs[t][c[2]] + 1]_vars

\* the series-id resolution of a flush failed after the id of one label set
\* had been assigned: the id is cached, the store has no row of the metric
\* and the call returned the error
C20_Witness ==
    \E c \in Chans : \E r \in Reqs :
        /\ flushLog.err = "series"
        /\ DOMAIN seriesCache[c] # {}
        /\ store[c[2]] = << >>
        /\ r \in Range(sent[c])
        /\ Returned(r) /\ ret[r].err = "series"

\* C21 (series-id immutability): the seriesID of a batch is assigned at most
\* once: a batch in a buffer is unresolved and never assigned, or resolved
\* and assigned once; a flush assigns no seriesID a second time; the
\* batches handed to CopyFrom are all resolved, and every stored row carries
\* a non-negative id.
C21_SeriesIdAssignedOnce ==
    /\ \A c \in Chans : \A i \in 1 .. Len(sampleInfos[c]) :
          sampleInfos[c][i].writes = IF sampleInfos[c][i].seriesID > -1 THEN 1 ELSE 0
    /\ flushLog.writes \subseteq {0, 1}
    /\ flushLog.copyCalls > 0 => flushLog.writes \subseteq {1}
    /\ \A m \in Metrics : \A p \in 1 .. Len(store[m]) : store[m][p][4] > -1

\* a flush handed to CopyFrom a buffer with one label set resolved by the
\* series cache and another resolved by the store
C21_Witness ==
    /\ flushLog.copyCalls = 1
    /\ flushLog.err = NoErr
    /\ Cardinality(flushLog.labels) = 2
    /\ flushLog.known # {}
    /\ flushLog.calls = 1
    /\ flushLog.writes = {1}

\* nil, the labels reference of a batch that has been dropped
NilLabels == 0

\* C22 (labels release): a batch of a pending buffer whose series id was
\* assigned from the series cache has no labels reference.
C22_LabelsDropped ==
    \A c \in Chans : \A i \in 1 .. Len(sampleInfos[c]) :
        sampleInfos[c][i].seriesID > -1 => sampleInfos[c][i].labels = NilLabels

\* Under fair scheduling a writer that got possiblyNew = true is followed by
\* the beginning of a CompleteMetricCreation call, unless the process
\* panics.
FinalizationUnlessPanic ==
    \A c \in Chans : c \in unserved ~> (c \notin unserved \/ crashed # "no")

\* C23 (finalization is never lost by coalescing): under fair scheduling,
\* whenever a writer gets possiblyNew = true from the store, a call of
\* CompleteMetricCreation begins afterwards.
C23_FinalizationFollows ==
    \A c \in Chans : c \in unserved ~> c \notin unserved

\* C24 (shutdown and writer start-up): no writer sends on the completer
\* signal channel after Close() has closed it.
C24_NoSignalAfterClose == crashed # "send on closed signal"

\* C25 (no send on a closed error sink): no send is made on an error sink
\* that has been closed; a sink is closed only once the latch of its call
\* is at zero, and by then no writer holds a task of the call, no mailbox
\* holds a request of it, and the writers it spawned have finished their
\* table resolution.
C25_SendsBeforeSinkClosed ==
    /\ crashed # "send on closed errChan"
    /\ \A r \in Reqs :
          errChan[r].closed =>
              /\ latch[r] = 0
              /\ \A c \in Chans :
                    /\ r \notin Range(mailbox[c])
                    /\ r \notin Range(needsResponse[c])
                    /\ c[1] = r => wpc[c] # "start"

\* the sink of an asynchronous call for two metrics was closed by its
\* background goroutine after a failed writer or a failed flush had made a
\* send on it
C25_Witness ==
    \E r \in Reqs :
        /\ asyncAcks
        /\ errChan[r].closed
        /\ r \in dropLog
        /\ r \in poisoned \/ r \in failedFlush
        /\ Cardinality(rows[r].ms) = 2

=============================================================================
